---------------------------- MODULE Spec2Model ----------------------------
(***************************************************************************)
(* A model of the product-video generator: the Input Collector            *)
(* (components/PromptForm.tsx), the prompt construction and the            *)
(* submit / poll / fetch pipeline (generateVideo).                         *)
(*                                                                         *)
(* Text is a sequence of one-character strings; the fixed sentences of the *)
(* prompt template are single tokens of such a sequence.                   *)
(***************************************************************************)
EXTENDS Integers, Sequences, FiniteSets, TLC

VARIABLES
    \* ---- constructPrompt, applied to one params object
    cpParams,        \* the params handed to constructPrompt
    cpPrompt,        \* the string it returned
    cpDone,          \* whether constructPrompt has returned
    cpPrev           \* the previous call (params, returned string), if any: <<>> or <<call>>

VARIABLES
    \* ---- generateVideo, one entry per call
    pc,              \* where the call is suspended, or how it settled
    params,          \* the request object the call was given
    finalPrompt,     \* const finalPrompt
    payload,         \* const generateVideoPayload, as submitted
    operation,       \* let operation: <<>> before the submit returns, then <<handle>>
    queryArg,        \* the handle passed to the pending / latest getVideosOperation
    fetchUrl,        \* the URL handed to fetch
    result,          \* <<>> or <<the value the promise resolved with>>
    error,           \* <<>> or the message of the error the promise rejected with
    \* ---- the service and the transport, as the call's environment
    plan,            \* per job: after how many status queries it completes, and how
    served,          \* per job: handles returned so far (saturates above MaxPolls)
    nSubmit,         \* per call: generateVideos requests received
    nWait,           \* per call: timer waits elapsed (saturates above MaxPolls)
    nQuery,          \* per call: getVideosOperation requests received (saturates)
    nFetch,          \* per call: fetch requests received
    fetchRes         \* per call: <<>> or <<the Response fetch resolved with>>

VARIABLES
    \* ---- PromptForm (the Input Collector): its useState cells and its prop
    productName, keyFeatures, targetAudience, videoStyle, productImages,
    model, aspectRatio, resolution, isSettingsOpen,
    initialValues,   \* the prop: <<>> (null / undefined) or <<prior request>>
    \* ---- the "Add Image" ImageUpload and the file reads it started
    inputValue,      \* the file its <input> holds: <<>> or <<file>>
    reads,           \* pending fileToImageFile calls, as a bag of [file, stale];
                     \* stale: the ImageUpload that started it has unmounted
    generated,       \* the request objects handed to onGenerate, in order
    alias,           \* the requests (indices of generated) whose productImages
                     \* array is the very array the productImages cell holds
    logged,          \* number of console.error calls of handleFileChange
    uncaught,        \* an error left handleFileChange (an unhandled rejection)
    nOps             \* user and parent events so far

promptVars == <<cpParams, cpPrompt, cpDone, cpPrev>>

fieldVars == <<productName, keyFeatures, targetAudience, videoStyle, model,
               aspectRatio, resolution, isSettingsOpen>>

collectorVars == <<fieldVars, productImages, initialValues, inputValue, reads,
                   generated, alias, logged, uncaught, nOps>>

callVars == <<pc, params, finalPrompt, payload, operation, queryArg, fetchUrl,
              result, error>>

envVars == <<plan, served, nSubmit, nWait, nQuery, nFetch, fetchRes>>

pipelineVars == <<callVars, envVars>>

\* what no step of generateVideo touches
nonPipelineVars == <<promptVars, collectorVars>>

\* what no step of the Collector touches
nonCollectorVars == <<promptVars, pipelineVars>>

vars == <<promptVars, pipelineVars, collectorVars>>

-----------------------------------------------------------------------------
(* Bounds of the model *)

\* longest key-features text explored
MaxFeatureLen == 3

\* user and parent events (edits, selections, removals, re-seeds,
\* submissions) explored per behaviour of the Collector
MaxOps == 4

\* file reads pending at once
MaxPending == 2

\* a job completes after at most this many status queries, or never; the
\* counters of waits and queries are exact up to MaxPolls + 1 and stay there
MaxPolls == 2

\* PromptForm.tsx line 318: the Add control is shown below this many images
MaxImages == 6

-----------------------------------------------------------------------------
(* types.ts *)

VideoStyle == {"Sleek & Modern", "Minimalist", "Energetic & Fast-Paced", "Informational"}
VeoModel == {"veo-3.1-fast-generate-preview", "veo-3.1-generate-preview"}
AspectRatio == {"16:9", "9:16"}
Resolution == {"720p", "1080p"}

-----------------------------------------------------------------------------
(* String primitives of the language runtime, as the code uses them *)

NL == "\n"

\* characters String.prototype.trim strips
IsSpace(ch) == ch \in {" ", "\t", "\r", NL}

RECURSIVE TrimStart(_)
TrimStart(s) ==
    IF s = <<>> THEN <<>>
    ELSE IF IsSpace(Head(s)) THEN TrimStart(Tail(s)) ELSE s

RECURSIVE TrimEnd(_)
TrimEnd(s) ==
    IF s = <<>> THEN <<>>
    ELSE IF IsSpace(s[Len(s)]) THEN TrimEnd(SubSeq(s, 1, Len(s) - 1)) ELSE s

\* String.prototype.trim
Trim(s) == TrimEnd(TrimStart(s))

\* String.prototype.split(sep): "" splits to [""]
RECURSIVE SplitFrom(_, _, _)
SplitFrom(s, sep, cur) ==
    IF s = <<>> THEN <<cur>>
    ELSE IF Head(s) = sep THEN <<cur>> \o SplitFrom(Tail(s), sep, <<>>)
    ELSE SplitFrom(Tail(s), sep, Append(cur, Head(s)))

Split(s, sep) == SplitFrom(s, sep, <<>>)

\* Array.prototype.join(sep)
RECURSIVE Join(_, _)
Join(lines, sep) ==
    IF lines = <<>> THEN <<>>
    ELSE IF Len(lines) = 1 THEN lines[1]
    ELSE lines[1] \o <<sep>> \o Join(Tail(lines), sep)

\* Array.prototype.map with line => line.trim()
MapTrim(lines) == [i \in 1..Len(lines) |-> Trim(lines[i])]

\* a string is truthy when it is not empty
Truthy(s) == s # <<>>

\* String.prototype.toLowerCase on the style names
ToLowerCase(style) ==
    CASE style = "Sleek & Modern" -> "sleek & modern"
      [] style = "Minimalist" -> "minimalist"
      [] style = "Energetic & Fast-Paced" -> "energetic & fast-paced"
      [] style = "Informational" -> "informational"

-----------------------------------------------------------------------------
(* constructPrompt *)

Opening(p) ==
    <<"Create a ", ToLowerCase(p.videoStyle),
      ", 15-second e-commerce product video for the '">>
    \o p.productName \o <<"'.", NL, NL>>

AudienceSentence(p) ==
    <<"The video should be dynamic and engaging, targeting ">>
    \o p.targetAudience \o <<".", NL, NL>>

FeaturesLeadIn == <<"Showcase the following key features:", NL>>

FeatureLines(text) ==
    SelectSeq(MapTrim(Split(text, NL)), Truthy)

FeaturesBlock(p) ==
    FeaturesLeadIn \o Join(FeatureLines(p.keyFeatures), NL) \o <<NL, NL>>

Closing ==
    <<"Use smooth transitions, clean graphics, and upbeat, modern background music. The video should feel professional and high-quality.",
      NL, NL,
      "Use the provided images as strong visual references for the product's appearance and functionality.">>

HasAudience(p) == Truthy(p.targetAudience)

HasFeatures(p) == Truthy(p.keyFeatures)

\* mutant: the audience sentence appended after the key-features block
constructPromptAudienceAfterFeatures(p) ==
    Opening(p)
    \o (IF HasFeatures(p) THEN FeaturesBlock(p) ELSE <<>>)
    \o (IF HasAudience(p) THEN AudienceSentence(p) ELSE <<>>)
    \o Closing

constructPrompt(p) ==
    Opening(p)
    \o (IF HasAudience(p) THEN AudienceSentence(p) ELSE <<>>)
    \o (IF HasFeatures(p) THEN FeaturesBlock(p) ELSE <<>>)
    \o Closing

-----------------------------------------------------------------------------
(* Inputs of the prompt specification *)

RECURSIVE TextsUpTo(_, _)
TextsUpTo(chars, n) ==
    IF n = 0 THEN {<<>>}
    ELSE LET shorter == TextsUpTo(chars, n - 1)
         IN  shorter \cup {Append(t, ch) : t \in shorter, ch \in chars}

FeatureChars == {" ", NL, "a", "b"}

FeatureTexts == TextsUpTo(FeatureChars, MaxFeatureLen)

AudienceTexts == {<<>>, <<" ">>, <<"t">>}

NameTexts == {<<>>, <<" ">>, <<"n">>}

NoImages == <<>>

PromptParams ==
    [productName : {<<"n">>}, keyFeatures : FeatureTexts,
     targetAudience : AudienceTexts, videoStyle : VideoStyle,
     productImages : {NoImages}, model : {"veo-3.1-generate-preview"},
     aspectRatio : {"16:9"}, resolution : {"720p"}]

-----------------------------------------------------------------------------
(* generateVideo: values *)

CallIds == {1, 2}

Never == 0 - 1

Min(a, b) == IF a < b THEN a ELSE b

\* a counter that is exact up to MaxPolls + 1
Count(n) == Min(n + 1, MaxPolls + 1)

API_KEY == "API_KEY"

PngA == [file |-> [name |-> "a.png", type |-> "image/png"], base64 |-> "QQ=="]
JpgB == [file |-> [name |-> "b.jpg", type |-> "image/jpeg"], base64 |-> "Qg=="]

\* retrieval URIs a descriptor may carry: with an escape, plain, malformed
UriEscaped == <<"v", "1", "%", "3", "F", "a">>
UriPlain == <<"v", "2", "?", "a">>
UriMalformed == <<"v", "3", "%">>

HexDigits == {"0", "1", "2", "3", "4", "5", "6", "7", "8", "9",
              "A", "B", "C", "D", "E", "F"}

\* the character an escape %XY stands for (the escapes the URIs above use)
Unescape(x, y) ==
    CASE x = "3" /\ y = "F" -> "?"
      [] x = "2" /\ y = "6" -> "&"
      [] x = "2" /\ y = "F" -> "/"
      [] OTHER -> "\\x" \o x \o y

\* decodeURIComponent: [ok, value]; a "%" not followed by two hex digits
\* throws URIError
RECURSIVE decodeURIComponent(_)
decodeURIComponent(s) ==
    IF s = <<>> THEN [ok |-> TRUE, value |-> <<>>]
    ELSE IF Head(s) # "%" THEN
        LET rest == decodeURIComponent(Tail(s))
        IN  [ok |-> rest.ok, value |-> <<Head(s)>> \o rest.value]
    ELSE IF Len(s) >= 3 /\ s[2] \in HexDigits /\ s[3] \in HexDigits THEN
        LET rest == decodeURIComponent(SubSeq(s, 4, Len(s)))
        IN  [ok |-> rest.ok, value |-> <<Unescape(s[2], s[3])>> \o rest.value]
    ELSE [ok |-> FALSE, value |-> <<>>]

\* a generated-video descriptor: video absent, or present with a uri
\* (the empty uri stands for an absent one: both are falsy)
Descriptor(videoPresent, uri, tag) ==
    [video |-> IF videoPresent THEN <<[uri |-> uri, tag |-> tag]>> ELSE <<>>]

\* the shapes a complete operation can have
Shapes ==
    {"noResponse", "noList", "emptyList", "noVideo", "noUri", "noUriThenOk",
     "escaped", "plain", "twoVideos", "malformed"}

GeneratedVideos(shape) ==
    CASE shape = "emptyList" -> <<>>
      [] shape = "noVideo" -> <<Descriptor(FALSE, <<>>, "d1")>>
      [] shape = "noUri" -> <<Descriptor(TRUE, <<>>, "d1")>>
      [] shape = "noUriThenOk" ->
            <<Descriptor(TRUE, <<>>, "d1"), Descriptor(TRUE, UriPlain, "d2")>>
      [] shape = "escaped" -> <<Descriptor(TRUE, UriEscaped, "d1")>>
      [] shape = "plain" -> <<Descriptor(TRUE, UriPlain, "d1")>>
      [] shape = "twoVideos" ->
            <<Descriptor(TRUE, UriEscaped, "d1"), Descriptor(TRUE, UriPlain, "d2")>>
      [] shape = "malformed" -> <<Descriptor(TRUE, UriMalformed, "d1")>>
      [] OTHER -> <<>>

\* an operation handle of job `name`: response is <<>> or <<[generatedVideos]>>,
\* generatedVideos is <<>> (absent) or <<the list>>
Incomplete(name) == [name |-> name, done |-> FALSE, response |-> <<>>]

Complete(name, shape) ==
    [name |-> name, done |-> TRUE,
     response |->
        IF shape = "noResponse" THEN <<>>
        ELSE <<[generatedVideos |->
                  IF shape = "noList" THEN <<>>
                  ELSE <<GeneratedVideos(shape)>>]>>]

\* the n-th handle the service returns for a job (0: the submit's)
ServiceHandle(name, n) ==
    IF plan[name].doneAfter # Never /\ n >= plan[name].doneAfter
    THEN Complete(name, plan[name].shape)
    ELSE Incomplete(name)

\* Responses of the transport
Responses ==
    {[ok |-> TRUE, status |-> "200", statusText |-> "OK"],
     [ok |-> FALSE, status |-> "404", statusText |-> "Not Found"],
     [ok |-> FALSE, status |-> "503", statusText |-> "Service Unavailable"]}

BodyOf(url) == <<"bytes of ">> \o url

NoVideosWereGenerated == <<"No videos were generated.">>
MissingUri == <<"Generated video is missing a URI.">>
NoVideosGenerated == <<"No videos generated.">>
FailedToFetch(res) == <<"Failed to fetch video: ", res.status, " ", res.statusText>>
URIError == <<"URIError: URI malformed">>
ApiError == <<"ApiError">>
NetworkError == <<"TypeError: Failed to fetch">>

-----------------------------------------------------------------------------
(* generateVideo: steps, one per stretch of code between two awaits *)

\* mutant: the loop stops after the sixth image
referenceImagesPayloadCapped(p) ==
    [i \in 1..Min(Len(p.productImages), MaxImages) |->
        [image |-> [imageBytes |-> p.productImages[i].base64,
                    mimeType |-> p.productImages[i].file.type],
         referenceType |-> "ASSET"]]

referenceImagesPayload(p) ==
    [i \in 1..Len(p.productImages) |->
        [image |-> [imageBytes |-> p.productImages[i].base64,
                    mimeType |-> p.productImages[i].file.type],
         referenceType |-> "ASSET"]]

generateVideoPayload(p) ==
    [model |-> p.model,
     prompt |-> constructPrompt(p),
     config |-> [numberOfVideos |-> 1,
                 resolution |-> p.resolution,
                 aspectRatio |-> p.aspectRatio,
                 referenceImages |-> referenceImagesPayload(p)]]

Reject(c, message) ==
    /\ pc' = [pc EXCEPT ![c] = "rejected"]
    /\ error' = [error EXCEPT ![c] = message]

\* lines 40-75: build the prompt and the payload, send the generation request
Submit(c) ==
    /\ pc[c] = "start"
    /\ finalPrompt' = [finalPrompt EXCEPT ![c] = constructPrompt(params[c])]
    /\ payload' = [payload EXCEPT ![c] = <<generateVideoPayload(params[c])>>]
    /\ nSubmit' = [nSubmit EXCEPT ![c] = @ + 1]
    /\ pc' = [pc EXCEPT ![c] = "awaitSubmit"]
    /\ UNCHANGED <<nonPipelineVars, params, operation, queryArg, fetchUrl, result, error,
                   plan, served, nWait, nQuery, nFetch, fetchRes>>

\* the first descriptor with a truthy video.uri, read as the code reads it
HasResponse(h) == h.response # <<>>
Videos(h) == h.response[1].generatedVideos
NoVideos(h) == Videos(h) = <<>> \/ Len(Videos(h)[1]) = 0
FirstVideo(h) == Videos(h)[1][1]
\* mutant: the uri of the first descriptor is not tested
FirstHasVideoOnly(h) == FirstVideo(h).video # <<>>

FirstHasUri(h) == FirstVideo(h).video # <<>> /\ Truthy(FirstVideo(h).video[1].uri)

\* lines 84-101 and 111-114: validate the complete operation, start the fetch
Validate(c, h) ==
    IF ~HasResponse(h) THEN
        /\ Reject(c, NoVideosGenerated)
        /\ UNCHANGED <<fetchUrl, nFetch>>
    ELSE IF NoVideos(h) THEN
        /\ Reject(c, NoVideosWereGenerated)
        /\ UNCHANGED <<fetchUrl, nFetch>>
    ELSE IF ~FirstHasUri(h) THEN
        /\ Reject(c, MissingUri)
        /\ UNCHANGED <<fetchUrl, nFetch>>
    ELSE LET url == decodeURIComponent(FirstVideo(h).video[1].uri)
         IN  IF ~url.ok THEN
                 /\ Reject(c, URIError)
                 /\ UNCHANGED <<fetchUrl, nFetch>>
             ELSE
                 /\ fetchUrl' = [fetchUrl EXCEPT ![c] = url.value \o <<"&key=", API_KEY>>]
                 /\ nFetch' = [nFetch EXCEPT ![c] = @ + 1]
                 /\ pc' = [pc EXCEPT ![c] = "awaitFetch"]
                 /\ UNCHANGED error

\* mutant: a do-while loop, which polls once before it tests the handle
ContinueDoWhile(c, h) ==
    IF ~h.done \/ nQuery[c] = 0 THEN
        /\ pc' = [pc EXCEPT ![c] = "wait"]
        /\ UNCHANGED <<error, fetchUrl, nFetch>>
    ELSE Validate(c, h)

\* mutant: the loop gives up after one status query
ContinueMaxAttempts(c, h) ==
    IF ~h.done /\ nQuery[c] >= 1 THEN
        /\ Reject(c, <<"Timed out waiting for the video.">>)
        /\ UNCHANGED <<fetchUrl, nFetch>>
    ELSE IF ~h.done THEN
        /\ pc' = [pc EXCEPT ![c] = "wait"]
        /\ UNCHANGED <<error, fetchUrl, nFetch>>
    ELSE Validate(c, h)

\* lines 78-79: the loop test on a handle just received
Continue(c, h) ==
    IF ~h.done THEN
        /\ pc' = [pc EXCEPT ![c] = "wait"]
        /\ UNCHANGED <<error, fetchUrl, nFetch>>
    ELSE Validate(c, h)

\* line 75 resumes: the submit returned a handle
SubmitReturns(c) ==
    /\ pc[c] = "awaitSubmit"
    /\ LET h == ServiceHandle(c, 0)
       IN  /\ operation' = [operation EXCEPT ![c] = <<h>>]
           /\ served' = [served EXCEPT ![c] = Count(@)]
           /\ Continue(c, h)
    /\ UNCHANGED <<nonPipelineVars, params, finalPrompt, payload, queryArg, result,
                   plan, nSubmit, nWait, nQuery, fetchRes>>

\* mutant: a rejected submit is sent again
SubmitFailsRetry(c) ==
    /\ pc[c] = "awaitSubmit"
    /\ pc' = [pc EXCEPT ![c] = "start"]
    /\ UNCHANGED <<nonPipelineVars, params, finalPrompt, payload, operation,
                   queryArg, fetchUrl, result, error, envVars>>

\* line 75 throws: the submit was rejected by the service
SubmitFails(c) ==
    /\ pc[c] = "awaitSubmit"
    /\ Reject(c, ApiError)
    /\ UNCHANGED <<nonPipelineVars, params, finalPrompt, payload, operation, queryArg, fetchUrl,
                   result, envVars>>

\* mutant: the handle lives in one variable shared by all calls, so a call
\* queries with the handle of call 1 once that call has one
TimerFiresSharedHandle(c) ==
    /\ pc[c] = "wait"
    /\ nWait' = [nWait EXCEPT ![c] = Count(@)]
    /\ nQuery' = [nQuery EXCEPT ![c] = Count(@)]
    /\ queryArg' = [queryArg EXCEPT ![c] =
                       IF operation[1] # <<>> THEN operation[1] ELSE operation[c]]
    /\ pc' = [pc EXCEPT ![c] = "awaitQuery"]
    /\ UNCHANGED <<nonPipelineVars, params, finalPrompt, payload, operation,
                   fetchUrl, result, error, plan, served, nSubmit, nFetch,
                   fetchRes>>

\* lines 79-81: the timer fired, the status query is sent with the local handle
TimerFires(c) ==
    /\ pc[c] = "wait"
    /\ nWait' = [nWait EXCEPT ![c] = Count(@)]
    /\ nQuery' = [nQuery EXCEPT ![c] = Count(@)]
    /\ queryArg' = [queryArg EXCEPT ![c] = operation[c]]
    /\ pc' = [pc EXCEPT ![c] = "awaitQuery"]
    /\ UNCHANGED <<nonPipelineVars, params, finalPrompt, payload, operation, fetchUrl, result,
                   error, plan, served, nSubmit, nFetch, fetchRes>>

\* line 81 resumes: the service returned the refreshed handle of the job
\* named by the handle it was passed
QueryReturns(c) ==
    /\ pc[c] = "awaitQuery"
    /\ LET job == queryArg[c][1].name
           h == ServiceHandle(job, served[job])
       IN  /\ operation' = [operation EXCEPT ![c] = <<h>>]
           /\ served' = [served EXCEPT ![job] = Count(@)]
           /\ Continue(c, h)
    /\ UNCHANGED <<nonPipelineVars, params, finalPrompt, payload, queryArg, result,
                   plan, nSubmit, nWait, nQuery, fetchRes>>

\* line 81 throws
QueryFails(c) ==
    /\ pc[c] = "awaitQuery"
    /\ Reject(c, ApiError)
    /\ UNCHANGED <<nonPipelineVars, params, finalPrompt, payload, operation, queryArg, fetchUrl,
                   result, envVars>>

\* mutant: res.ok is not tested
FetchReturnsUnchecked(c, res) ==
    /\ pc[c] = "awaitFetch"
    /\ fetchRes' = [fetchRes EXCEPT ![c] = <<res>>]
    /\ pc' = [pc EXCEPT ![c] = "awaitBlob"]
    /\ UNCHANGED <<nonPipelineVars, params, finalPrompt, payload, operation,
                   queryArg, fetchUrl, result, error, plan, served, nSubmit,
                   nWait, nQuery, nFetch>>

\* lines 101-107: fetch resolved with a Response; not ok throws, ok reads the body
FetchReturns(c, res) ==
    /\ pc[c] = "awaitFetch"
    /\ fetchRes' = [fetchRes EXCEPT ![c] = <<res>>]
    /\ IF ~res.ok
       THEN Reject(c, FailedToFetch(res))
       ELSE /\ pc' = [pc EXCEPT ![c] = "awaitBlob"]
            /\ UNCHANGED error
    /\ UNCHANGED <<nonPipelineVars, params, finalPrompt, payload, operation, queryArg, fetchUrl,
                   result, plan, served, nSubmit, nWait, nQuery, nFetch>>

\* line 101 throws: the transport failed
FetchFails(c) ==
    /\ pc[c] = "awaitFetch"
    /\ Reject(c, NetworkError)
    /\ UNCHANGED <<nonPipelineVars, params, finalPrompt, payload, operation, queryArg, fetchUrl,
                   result, envVars>>

\* lines 107-110: the body arrived; resolve
BlobReturns(c) ==
    /\ pc[c] = "awaitBlob"
    /\ LET h == operation[c][1]
           videoObject == FirstVideo(h).video[1]
           url == decodeURIComponent(videoObject.uri).value
           videoBlob == BodyOf(fetchUrl[c])
       IN  result' = [result EXCEPT ![c] =
               <<[objectUrl |-> <<"blob:">> \o videoBlob, blob |-> videoBlob,
                  uri |-> url, video |-> videoObject]>>]
    /\ pc' = [pc EXCEPT ![c] = "resolved"]
    /\ UNCHANGED <<nonPipelineVars, params, finalPrompt, payload, operation, queryArg, fetchUrl,
                   error, envVars>>

\* line 107 throws: reading the body failed
BlobFails(c) ==
    /\ pc[c] = "awaitBlob"
    /\ Reject(c, NetworkError)
    /\ UNCHANGED <<nonPipelineVars, params, finalPrompt, payload, operation, queryArg, fetchUrl,
                   result, envVars>>

CallStep(c) ==
    \/ Submit(c)
    \/ SubmitReturns(c)
    \/ SubmitFails(c)
    \/ TimerFires(c)
    \/ QueryReturns(c)
    \/ QueryFails(c)
    \/ \E res \in Responses : FetchReturns(c, res)
    \/ FetchFails(c)
    \/ BlobReturns(c)
    \/ BlobFails(c)

Settled(c) == pc[c] \in {"resolved", "rejected"}

-----------------------------------------------------------------------------
(* PromptForm: values *)

FileA == PngA.file
FileB == JpgB.file
\* a file whose data URL carries nothing after the comma
FileEmpty == [name |-> "empty.png", type |-> "image/png"]

Files == {FileA, FileB, FileEmpty}

\* FileReader.readAsDataURL's result, as tokens
DataUrl(file) ==
    CASE file = FileA -> <<"data:image/png;base64", ",", "QQ==">>
      [] file = FileB -> <<"data:image/jpeg;base64", ",", "Qg==">>
      [] OTHER -> <<"data:">>

\* (reader.result as string).split(',')[1]: <<>> when absent or empty
Base64Of(file) ==
    LET parts == Split(DataUrl(file), ",")
    IN  IF Len(parts) >= 2 THEN parts[2] ELSE <<>>

\* lines 34-40: the ImageFile the read resolves with (when Base64Of is truthy)
ImageOf(file) == [file |-> file, base64 |-> Base64Of(file)[1]]

NameInputs == NameTexts
FeatureInputs == {<<>>, <<"a">>}
AudienceInputs == {<<>>, <<"t">>}
StyleInputs == {"Sleek & Modern", "Minimalist"}

\* prior requests the parent may pass as initialValues
PriorFive ==
    [productName |-> <<"n">>, keyFeatures |-> <<"a">>, targetAudience |-> <<"t">>,
     videoStyle |-> "Minimalist",
     productImages |-> <<PngA, JpgB, PngA, JpgB, PngA>>,
     model |-> "veo-3.1-fast-generate-preview", aspectRatio |-> "9:16",
     resolution |-> "1080p"]

PriorSix ==
    [productName |-> <<"n">>, keyFeatures |-> <<>>, targetAudience |-> <<>>,
     videoStyle |-> "Sleek & Modern",
     productImages |-> <<JpgB, PngA, JpgB, PngA, JpgB, PngA>>,
     model |-> "veo-3.1-generate-preview", aspectRatio |-> "16:9",
     resolution |-> "720p"]

PriorRequests == {PriorFive, PriorSix}

ReadKeys == [file : Files, stale : BOOLEAN]

NoReads == [r \in ReadKeys |-> 0]

RECURSIVE SumOver(_, _)
SumOver(f, S) ==
    IF S = {} THEN 0
    ELSE LET x == CHOOSE y \in S : TRUE IN f[x] + SumOver(f, S \ {x})

Pending == SumOver(reads, ReadKeys)

\* line 318: the "Add Image" ImageUpload is rendered
AddRendered(images) == Len(images) < MaxImages

\* when the Add ImageUpload unmounts its <input> goes and its pending reads
\* keep a ref that React has set to null
Orphan(rs) ==
    [r \in ReadKeys |->
        IF r.stale THEN rs[r] + rs[[file |-> r.file, stale |-> FALSE]] ELSE 0]

\* the reads and the input after a render that shows `images`
ReadsAfterRender(images, rs) == IF AddRendered(images) THEN rs ELSE Orphan(rs)

InputAfterRender(images, value) == IF AddRendered(images) THEN value ELSE <<>>

-----------------------------------------------------------------------------
(* PromptForm: derived values of a render, lines 221-231 *)

\* mutant: the name is tested without trim()
isSubmitDisabledUntrimmed == ~Truthy(productName) \/ Len(productImages) = 0

isSubmitDisabled == ~Truthy(Trim(productName)) \/ Len(productImages) = 0

tooltipText ==
    IF isSubmitDisabled THEN
        IF ~Truthy(Trim(productName)) /\ Len(productImages) = 0
        THEN "Please enter a product name and upload at least one image."
        ELSE IF ~Truthy(Trim(productName))
        THEN "Please enter a product name."
        ELSE "Please upload at least one product image."
    ELSE ""

\* mutant: the button is never disabled
SubmitAlwaysEnabled == TRUE

\* line 382: the submit button can be pressed
SubmitEnabled == ~isSubmitDisabled

\* lines 385-391: the tooltip element is rendered
TooltipShown == isSubmitDisabled /\ tooltipText # ""

-----------------------------------------------------------------------------
(* PromptForm: event handlers *)

Op == nOps < MaxOps /\ nOps' = nOps + 1

imageVars == <<productImages, inputValue, reads>>

setProductName(v) ==
    /\ Op
    /\ productName' = v
    /\ UNCHANGED <<keyFeatures, targetAudience, videoStyle, model, aspectRatio,
                   resolution, isSettingsOpen, imageVars, initialValues,
                   generated, alias, logged, uncaught,
                   nonCollectorVars>>

setKeyFeatures(v) ==
    /\ Op
    /\ keyFeatures' = v
    /\ UNCHANGED <<productName, targetAudience, videoStyle, model, aspectRatio,
                   resolution, isSettingsOpen, imageVars, initialValues,
                   generated, alias, logged, uncaught,
                   nonCollectorVars>>

setTargetAudience(v) ==
    /\ Op
    /\ targetAudience' = v
    /\ UNCHANGED <<productName, keyFeatures, videoStyle, model, aspectRatio,
                   resolution, isSettingsOpen, imageVars, initialValues,
                   generated, alias, logged, uncaught,
                   nonCollectorVars>>

setVideoStyle(v) ==
    /\ Op
    /\ videoStyle' = v
    /\ UNCHANGED <<productName, keyFeatures, targetAudience, model, aspectRatio,
                   resolution, isSettingsOpen, imageVars, initialValues,
                   generated, alias, logged, uncaught,
                   nonCollectorVars>>

\* line 331
toggleSettings ==
    /\ Op
    /\ isSettingsOpen' = ~isSettingsOpen
    /\ UNCHANGED <<productName, keyFeatures, targetAudience, videoStyle, model,
                   aspectRatio, resolution, imageVars, initialValues,
                   generated, alias, logged, uncaught,
                   nonCollectorVars>>

\* lines 336-372: the three selects exist only while the settings are open
setModel(v) ==
    /\ Op
    /\ isSettingsOpen
    /\ model' = v
    /\ UNCHANGED <<productName, keyFeatures, targetAudience, videoStyle,
                   aspectRatio, resolution, isSettingsOpen, imageVars,
                   initialValues, generated, alias, logged, uncaught,
                   nonCollectorVars>>

setAspectRatio(v) ==
    /\ Op
    /\ isSettingsOpen
    /\ aspectRatio' = v
    /\ UNCHANGED <<productName, keyFeatures, targetAudience, videoStyle, model,
                   resolution, isSettingsOpen, imageVars, initialValues,
                   generated, alias, logged, uncaught,
                   nonCollectorVars>>

setResolution(v) ==
    /\ Op
    /\ isSettingsOpen
    /\ resolution' = v
    /\ UNCHANGED <<productName, keyFeatures, targetAudience, videoStyle, model,
                   aspectRatio, isSettingsOpen, imageVars, initialValues,
                   generated, alias, logged, uncaught,
                   nonCollectorVars>>

\* lines 91-95: a change event of the Add <input> with a file; the read starts
selectFile(file) ==
    /\ Op
    /\ AddRendered(productImages)
    /\ inputValue # <<file>>
    /\ Pending < MaxPending
    /\ inputValue' = <<file>>
    /\ reads' = [reads EXCEPT ![[file |-> file, stale |-> FALSE]] = @ + 1]
    /\ UNCHANGED <<fieldVars, productImages, initialValues, generated, alias,
                   logged, uncaught,
                   nonCollectorVars>>

\* lines 92-105 with no file (the picker was cancelled): only the reset
selectNothing ==
    /\ Op
    /\ AddRendered(productImages)
    /\ inputValue # <<>>
    /\ inputValue' = <<>>
    /\ UNCHANGED <<fieldVars, productImages, reads, initialValues, generated, alias,
                   logged, uncaught,
                   nonCollectorVars>>

\* line 321: onSelect of the Add ImageUpload
appendImage(images, img) == Append(images, img)

\* mutant: the updater writes into the array it was given (push, splice), so
\* the requests that hold that array see the new contents
RequestsAfterInPlaceUpdate(images) ==
    [i \in 1..Len(generated) |->
        IF i \in alias THEN [generated[i] EXCEPT !.productImages = images]
        ELSE generated[i]]

\* lines 187, 313, 321: every update hands the cell another array ([...imgs,
\* img], imgs.filter(...), initialValues.productImages); the arrays held by
\* the requests already handed over are not written to
RequestsAfterUpdate(images) == generated

\* mutant: a read whose ImageUpload was unmounted meanwhile is dropped
readResolvesDropsStale(r) ==
    /\ reads[r] > 0
    /\ Truthy(Base64Of(r.file))
    /\ LET images == IF r.stale THEN productImages
                     ELSE appendImage(productImages, ImageOf(r.file))
           left == [reads EXCEPT ![r] = @ - 1]
       IN  /\ productImages' = images
           /\ reads' = ReadsAfterRender(images, left)
           /\ inputValue' =
                 InputAfterRender(images, IF r.stale THEN inputValue ELSE <<>>)
           /\ generated' = RequestsAfterUpdate(images)
           /\ alias' = {}
    /\ UNCHANGED <<fieldVars, initialValues, nOps, logged, uncaught,
                   nonCollectorVars>>

\* lines 95-96 and 103-105: the read resolved; onSelect, then the reset of
\* the <input> if the ImageUpload is still mounted
readResolves(r) ==
    /\ reads[r] > 0
    /\ Truthy(Base64Of(r.file))
    /\ LET images == appendImage(productImages, ImageOf(r.file))
           left == [reads EXCEPT ![r] = @ - 1]
       IN  /\ productImages' = images
           /\ reads' = ReadsAfterRender(images, left)
           /\ inputValue' =
                 InputAfterRender(images, IF r.stale THEN inputValue ELSE <<>>)
           /\ generated' = RequestsAfterUpdate(images)
           /\ alias' = {}
    /\ UNCHANGED <<fieldVars, initialValues, nOps, logged, uncaught,
                   nonCollectorVars>>

\* mutant: the await is not inside a try: the rejection leaves the handler
\* before the reset of the <input>
readRejectsUncaught(r) ==
    /\ reads[r] > 0
    /\ reads' = [reads EXCEPT ![r] = @ - 1]
    /\ uncaught' = TRUE
    /\ UNCHANGED <<fieldVars, productImages, initialValues, generated, alias, nOps,
                   inputValue, logged, nonCollectorVars>>

\* lines 38-42 and 98-105: the read rejected (reader.onerror, or no base64);
\* logged, then the reset of the <input> if the ImageUpload is still mounted
readRejects(r) ==
    /\ reads[r] > 0
    /\ reads' = [reads EXCEPT ![r] = @ - 1]
    /\ logged' = Min(logged + 1, MaxOps + 1)
    /\ inputValue' = IF r.stale THEN inputValue ELSE <<>>
    /\ UNCHANGED <<fieldVars, productImages, initialValues, generated, alias, nOps,
                   uncaught, nonCollectorVars>>

\* mutant: the filter drops the entry after the one asked for (the last one
\* when there is none after it)
removeAtOffByOne(images, index) ==
    [k \in 1..(Len(images) - 1) |-> IF k <= index THEN images[k] ELSE images[k + 1]]

\* lines 312-314: imgs.filter((_, i) => i !== index), index counted from 1 here
removeAt(images, index) ==
    [k \in 1..(Len(images) - 1) |-> IF k < index THEN images[k] ELSE images[k + 1]]

\* lines 311-315: onRemove of the ImageUpload showing the image at `index`
removeImage(index) ==
    /\ Op
    /\ index \in 1..Len(productImages)
    /\ productImages' = removeAt(productImages, index)
    /\ generated' = RequestsAfterUpdate(productImages')
    /\ alias' = {}
    /\ UNCHANGED <<fieldVars, inputValue, reads, initialValues, logged, uncaught,
                   nonCollectorVars>>

\* mutant: the effect re-seeds every cell but the image list
changeInitialValuesKeepsImages(v) ==
    /\ Op
    /\ v # initialValues
    /\ initialValues' = v
    /\ IF v # <<>> THEN
          /\ productName' = v[1].productName
          /\ keyFeatures' = v[1].keyFeatures
          /\ targetAudience' = v[1].targetAudience
          /\ videoStyle' = v[1].videoStyle
          /\ model' = v[1].model
          /\ aspectRatio' = v[1].aspectRatio
          /\ resolution' = v[1].resolution
          /\ UNCHANGED <<productImages, reads, inputValue, generated, alias>>
       ELSE UNCHANGED <<productName, keyFeatures, targetAudience, videoStyle,
                        productImages, model, aspectRatio, resolution, reads,
                        inputValue, generated, alias>>
    /\ UNCHANGED <<isSettingsOpen, logged, uncaught, nonCollectorVars>>

\* mutant: a null initialValues puts every cell back to its default
changeInitialValuesResets(v) ==
    /\ Op
    /\ v # initialValues
    /\ initialValues' = v
    /\ productName' = IF v # <<>> THEN v[1].productName ELSE <<>>
    /\ keyFeatures' = IF v # <<>> THEN v[1].keyFeatures ELSE <<>>
    /\ targetAudience' = IF v # <<>> THEN v[1].targetAudience ELSE <<>>
    /\ videoStyle' = IF v # <<>> THEN v[1].videoStyle ELSE "Sleek & Modern"
    /\ productImages' = IF v # <<>> THEN v[1].productImages ELSE <<>>
    /\ model' = IF v # <<>> THEN v[1].model ELSE "veo-3.1-generate-preview"
    /\ aspectRatio' = IF v # <<>> THEN v[1].aspectRatio ELSE "16:9"
    /\ resolution' = IF v # <<>> THEN v[1].resolution ELSE "720p"
    /\ reads' = ReadsAfterRender(productImages', reads)
    /\ inputValue' = InputAfterRender(productImages', inputValue)
    /\ generated' = RequestsAfterUpdate(productImages')
    /\ alias' = {}
    /\ UNCHANGED <<isSettingsOpen, logged, uncaught, nonCollectorVars>>

\* lines 181-192: the parent passes another initialValues; the effect re-seeds
\* every cell when the new value is not null
changeInitialValues(v) ==
    /\ Op
    /\ v # initialValues
    /\ initialValues' = v
    /\ IF v # <<>> THEN
          /\ productName' = v[1].productName
          /\ keyFeatures' = v[1].keyFeatures
          /\ targetAudience' = v[1].targetAudience
          /\ videoStyle' = v[1].videoStyle
          /\ productImages' = v[1].productImages
          /\ model' = v[1].model
          /\ aspectRatio' = v[1].aspectRatio
          /\ resolution' = v[1].resolution
          /\ reads' = ReadsAfterRender(v[1].productImages, reads)
          /\ inputValue' = InputAfterRender(v[1].productImages, inputValue)
          /\ generated' = RequestsAfterUpdate(v[1].productImages)
          /\ alias' = {}
       ELSE UNCHANGED <<productName, keyFeatures, targetAudience, videoStyle,
                        productImages, model, aspectRatio, resolution, reads,
                        inputValue, generated, alias>>
    /\ UNCHANGED <<isSettingsOpen, logged, uncaught,
                   nonCollectorVars>>

\* lines 194-206: the request object built from the cells
CurrentRequest ==
    [productName |-> productName, keyFeatures |-> keyFeatures,
     targetAudience |-> targetAudience, videoStyle |-> videoStyle,
     productImages |-> productImages, model |-> model,
     aspectRatio |-> aspectRatio, resolution |-> resolution]

\* lines 376-384: the submit button, when enabled, submits the form
handleSubmit ==
    /\ Op
    /\ SubmitEnabled
    /\ generated' = Append(generated, CurrentRequest)
    /\ alias' = alias \cup {Len(generated) + 1}
    /\ UNCHANGED <<fieldVars, imageVars, initialValues, logged, uncaught,
                   nonCollectorVars>>

-----------------------------------------------------------------------------
(* Initial states *)

\* image lists a caller may pass: none, two in either order, seven
ImageLists ==
    {<<>>, <<PngA, JpgB>>, <<JpgB, PngA>>,
     <<PngA, JpgB, JpgB, PngA, PngA, PngA, JpgB>>}

PipelineParams ==
    [productName : {<<"n">>}, keyFeatures : {<<"a", NL, "b">>},
     targetAudience : {<<>>, <<"t">>}, videoStyle : {"Minimalist"},
     productImages : ImageLists, model : {"veo-3.1-generate-preview"},
     aspectRatio : {"16:9"}, resolution : {"720p"}]

Plans == [doneAfter : (0..MaxPolls) \cup {Never}, shape : Shapes]

IdlePlan == [doneAfter |-> Never, shape |-> "noResponse"]

\* the calls in `started` are about to run, the others are never made
InitPipeline(started) ==
    /\ pc = [c \in CallIds |-> IF c \in started THEN "start" ELSE "idle"]
    /\ params \in [CallIds -> PipelineParams]
    /\ \A c \in CallIds \ started : params[c] = params[CHOOSE d \in started : TRUE]
    /\ finalPrompt = [c \in CallIds |-> <<>>]
    /\ payload = [c \in CallIds |-> <<>>]
    /\ operation = [c \in CallIds |-> <<>>]
    /\ queryArg = [c \in CallIds |-> <<>>]
    /\ fetchUrl = [c \in CallIds |-> <<>>]
    /\ result = [c \in CallIds |-> <<>>]
    /\ error = [c \in CallIds |-> <<>>]
    /\ plan \in [CallIds -> Plans]
    /\ \A c \in CallIds \ started : plan[c] = IdlePlan
    /\ served = [c \in CallIds |-> 0]
    /\ nSubmit = [c \in CallIds |-> 0]
    /\ nWait = [c \in CallIds |-> 0]
    /\ nQuery = [c \in CallIds |-> 0]
    /\ nFetch = [c \in CallIds |-> 0]
    /\ fetchRes = [c \in CallIds |-> <<>>]

\* no call of generateVideo is made
InitPipelineIdle ==
    /\ pc = [c \in CallIds |-> "idle"]
    /\ params = [c \in CallIds |-> CHOOSE p \in PipelineParams : TRUE]
    /\ finalPrompt = [c \in CallIds |-> <<>>]
    /\ payload = [c \in CallIds |-> <<>>]
    /\ operation = [c \in CallIds |-> <<>>]
    /\ queryArg = [c \in CallIds |-> <<>>]
    /\ fetchUrl = [c \in CallIds |-> <<>>]
    /\ result = [c \in CallIds |-> <<>>]
    /\ error = [c \in CallIds |-> <<>>]
    /\ plan = [c \in CallIds |-> IdlePlan]
    /\ served = [c \in CallIds |-> 0]
    /\ nSubmit = [c \in CallIds |-> 0]
    /\ nWait = [c \in CallIds |-> 0]
    /\ nQuery = [c \in CallIds |-> 0]
    /\ nFetch = [c \in CallIds |-> 0]
    /\ fetchRes = [c \in CallIds |-> <<>>]

InitPromptInputs ==
    /\ cpParams \in {p \in PromptParams : p.targetAudience = <<>>}
    /\ cpPrompt = <<>>
    /\ cpDone = FALSE
    /\ cpPrev = <<>>

\* constructPrompt is not exercised on its own
InitPromptIdle ==
    /\ cpParams = CHOOSE p \in PromptParams : TRUE
    /\ cpPrompt = <<>>
    /\ cpDone = TRUE
    /\ cpPrev = <<[params |-> cpParams, prompt |-> <<>>]>>

\* lines 154-179: the cells after the first render with the prop `v`
InitCollectorWith(v) ==
    /\ initialValues = v
    /\ productName = IF v # <<>> THEN v[1].productName ELSE <<>>
    /\ keyFeatures = IF v # <<>> THEN v[1].keyFeatures ELSE <<>>
    /\ targetAudience = IF v # <<>> THEN v[1].targetAudience ELSE <<>>
    /\ videoStyle = IF v # <<>> THEN v[1].videoStyle ELSE "Sleek & Modern"
    /\ productImages = IF v # <<>> THEN v[1].productImages ELSE <<>>
    /\ model = IF v # <<>> THEN v[1].model ELSE "veo-3.1-generate-preview"
    /\ aspectRatio = IF v # <<>> THEN v[1].aspectRatio ELSE "16:9"
    /\ resolution = IF v # <<>> THEN v[1].resolution ELSE "720p"
    /\ isSettingsOpen = FALSE
    /\ inputValue = <<>>
    /\ reads = NoReads
    /\ generated = <<>>
    /\ alias = {}
    /\ logged = 0
    /\ uncaught = FALSE
    /\ nOps = 0

InitialValuesInputs == {<<>>} \cup {<<r>> : r \in PriorRequests}

InitCollector == \E v \in InitialValuesInputs : InitCollectorWith(v)

\* the form is mounted and left alone
InitCollectorIdle == InitCollectorWith(<<>>)

-----------------------------------------------------------------------------
(* constructPrompt on its own *)

\* one call of constructPrompt on the current params
CallConstructPrompt ==
    /\ ~cpDone
    /\ cpPrompt' = constructPrompt(cpParams)
    /\ cpDone' = TRUE
    /\ UNCHANGED <<cpParams, cpPrev, pipelineVars, collectorVars>>

\* the caller changes only targetAudience, from empty to non-empty, and
\* keeps the previous call for comparison
ChangeAudience(a) ==
    /\ cpDone
    /\ cpPrev = <<>>
    /\ cpParams.targetAudience = <<>>
    /\ a # <<>>
    /\ cpPrev' = <<[params |-> cpParams, prompt |-> cpPrompt]>>
    /\ cpParams' = [cpParams EXCEPT !.targetAudience = a]
    /\ cpDone' = FALSE
    /\ UNCHANGED <<cpPrompt, pipelineVars, collectorVars>>

NextPrompt ==
    \/ CallConstructPrompt
    \/ \E a \in AudienceTexts : ChangeAudience(a)

InitPrompt == InitPromptInputs /\ InitPipelineIdle /\ InitCollectorIdle

SpecPrompt == InitPrompt /\ [][NextPrompt]_vars

-----------------------------------------------------------------------------
(* One call of generateVideo *)

NextPipeline ==
    \/ \E c \in CallIds : Submit(c)
    \/ \E c \in CallIds : SubmitReturns(c)
    \/ \E c \in CallIds : SubmitFails(c)
    \/ \E c \in CallIds : TimerFires(c)
    \/ \E c \in CallIds : QueryReturns(c)
    \/ \E c \in CallIds : QueryFails(c)
    \/ \E c \in CallIds, res \in Responses : FetchReturns(c, res)
    \/ \E c \in CallIds : FetchFails(c)
    \/ \E c \in CallIds : BlobReturns(c)
    \/ \E c \in CallIds : BlobFails(c)

InitOneCall == InitPromptIdle /\ InitPipeline({1}) /\ InitCollectorIdle

SpecPipeline == InitOneCall /\ [][NextPipeline]_vars

\* the timer fires, and the service and the transport answer every request
FairPipeline ==
    /\ SpecPipeline
    /\ \A c \in CallIds : WF_vars(CallStep(c))

-----------------------------------------------------------------------------
(* Two calls of generateVideo in flight at once *)

\* the jobs of the two calls produce different descriptors
ShapesOfCall(c) == IF c = 1 THEN {"escaped", "noUri"} ELSE {"plain", "emptyList"}

InitTwoCalls ==
    /\ InitPromptIdle
    /\ InitPipeline(CallIds)
    /\ \A c \in CallIds : plan[c].shape \in ShapesOfCall(c)
    /\ \A c \in CallIds : params[c].productImages = <<PngA, JpgB>>
    /\ InitCollectorIdle

SpecTwoCalls == InitTwoCalls /\ [][NextPipeline]_vars

-----------------------------------------------------------------------------
(* The Input Collector on its own *)

NextCollector ==
    \/ \E v \in NameInputs : setProductName(v)
    \/ \E v \in FeatureInputs : setKeyFeatures(v)
    \/ \E v \in AudienceInputs : setTargetAudience(v)
    \/ \E v \in StyleInputs : setVideoStyle(v)
    \/ toggleSettings
    \/ \E v \in VeoModel : setModel(v)
    \/ \E v \in AspectRatio : setAspectRatio(v)
    \/ \E v \in Resolution : setResolution(v)
    \/ \E f \in Files : selectFile(f)
    \/ selectNothing
    \/ \E r \in ReadKeys : readResolves(r)
    \/ \E r \in ReadKeys : readRejects(r)
    \/ \E i \in 1..(MaxImages + MaxPending) : removeImage(i)
    \/ \E v \in InitialValuesInputs : changeInitialValues(v)
    \/ handleSubmit

InitForm == InitPromptIdle /\ InitPipelineIdle /\ InitCollector

SpecCollector == InitForm /\ [][NextCollector]_vars

-----------------------------------------------------------------------------
(* Claims about the Input Collector *)

\* C1: the reference-image list never holds more than six entries.
C1_AtMostSixImages == Len(productImages) <= 6

\* the name has no character other than white space
NameBlank == \A i \in 1..Len(productName) : productName[i] \in {" ", "\t"}

\* C5: submission is disabled exactly when the product name is blank or the
\* image list is empty, and the reason shown is the combined message when
\* both are missing, the name message when only the name is, the image message
\* when only the images are, and none when submission is enabled.
C5_DisabledWithReason ==
    LET noImages == Len(productImages) = 0
    IN  /\ SubmitEnabled <=> ~(NameBlank \/ noImages)
        /\ TooltipShown <=> (NameBlank \/ noImages)
        /\ (NameBlank /\ noImages) =>
              tooltipText = "Please enter a product name and upload at least one image."
        /\ (NameBlank /\ ~noImages) =>
              tooltipText = "Please enter a product name."
        /\ (~NameBlank /\ noImages) =>
              tooltipText = "Please upload at least one product image."
        /\ (~NameBlank /\ ~noImages) => tooltipText = ""
        /\ nOps < MaxOps => (ENABLED handleSubmit <=> ~(NameBlank \/ noImages))

C5_Witness ==
    /\ productName = <<" ">>
    /\ Len(productImages) > 0
    /\ ~SubmitEnabled
    /\ tooltipText = "Please enter a product name."

\* the fields of the Collector other than the image list
OtherFields ==
    <<productName, keyFeatures, targetAudience, videoStyle, model, aspectRatio,
      resolution, isSettingsOpen, initialValues, inputValue, reads, generated>>

\* C8: removing the image at position i of n leaves n - 1 images: the
\* entries before i stay in place, those after i move up by one, and no other
\* field of the Collector changes.
C8_RemoveDeletesExactlyOne ==
    [][\A i \in 1..Len(productImages) :
          removeImage(i) =>
              /\ Len(productImages') = Len(productImages) - 1
              /\ \A k \in 1..(i - 1) : productImages'[k] = productImages[k]
              /\ \A k \in i..(Len(productImages) - 1) :
                    productImages'[k] = productImages[k + 1]
              /\ OtherFields' = OtherFields]_vars

\* the third of PriorFive's five images has been removed
C8_Witness ==
    /\ initialValues = <<PriorFive>>
    /\ nOps = 1
    /\ productImages = <<PngA, JpgB, JpgB, PngA>>

\* a name with a character that is not white space
NonBlank(name) == \E i \in 1..Len(name) : name[i] \notin {" ", "\t", "\r", NL}

\* C11: every request the Collector hands over has a non-blank product name
\* and at least one image, and a submission happens only in a state where
\* both are present, handing over that state's fields.
C11_RequestsHaveNameAndImage ==
    /\ [](\A i \in 1..Len(generated) :
            /\ NonBlank(generated[i].productName)
            /\ Len(generated[i].productImages) >= 1)
    /\ [][generated' # generated =>
            /\ NonBlank(productName)
            /\ Len(productImages) >= 1
            /\ generated' = Append(generated,
                  [productName |-> productName, keyFeatures |-> keyFeatures,
                   targetAudience |-> targetAudience, videoStyle |-> videoStyle,
                   productImages |-> productImages, model |-> model,
                   aspectRatio |-> aspectRatio, resolution |-> resolution])]_vars

\* a request was handed over after the name was typed and an image added
C11_Witness ==
    /\ Len(generated) = 1
    /\ generated[1].productName = <<"n">>
    /\ generated[1].productImages = <<JpgB>>
    /\ initialValues = <<>>
    /\ nOps >= 3

\* C13: a request handed over is a snapshot: no later step of the Collector
\* (edit, add, removal, re-seed, further submission) changes any field of it,
\* its image list included.
C13_RequestIsSnapshot ==
    [][/\ Len(generated') >= Len(generated)
       /\ \A i \in 1..Len(generated) : generated'[i] = generated[i]]_vars

\* after the submission the only image was removed from the form
C13_Witness ==
    /\ Len(generated) = 1
    /\ generated[1].productName = <<"n">>
    /\ generated[1].productImages = <<PngA>>
    /\ productImages = <<>>
    /\ alias = {}

\* C14: a failed read of a selected file leaves the image list and every
\* other field as they were, is logged and leaves the handler as no error,
\* and resets the <input> it came from, as a successful read does, so that
\* picking the same file again is a change of the input.
C14_FailedReadIsIgnored ==
    /\ [](~uncaught)
    /\ [][\A r \in ReadKeys : readRejects(r) =>
            /\ productImages' = productImages
            /\ fieldVars' = fieldVars
            /\ initialValues' = initialValues
            /\ generated' = generated
            /\ logged' > logged
            /\ (~r.stale => inputValue' = <<>>)
            /\ (~r.stale /\ AddRendered(productImages) /\ nOps < MaxOps
                  => (ENABLED selectFile(r.file))')]_vars
    /\ [][\A r \in ReadKeys : readResolves(r) /\ ~r.stale => inputValue' = <<>>]_vars

\* a.png was picked while the form showed one image, and its read failed
C14_Witness ==
    /\ logged = 1
    /\ productImages = <<JpgB>>
    /\ inputValue = <<>>
    /\ Pending = 0
    /\ nOps = 2

\* the cells that mirror the fields of a request
RequestCells == CurrentRequest

\* C15: when the prior request changes to another request, every field of
\* the form (name, features, audience, style, image list, model, aspect
\* ratio, resolution) equals that field of the new prior request right after
\* the change, whatever was edited since the previous seed.
C15_ReseededFromPrior ==
    [][initialValues' # initialValues /\ initialValues' # <<>>
          => RequestCells' = initialValues'[1]]_vars

\* a name was typed, an image added and the form submitted; then the parent
\* passed the five-image request, which replaced all of it
C15_Witness ==
    /\ initialValues = <<PriorFive>>
    /\ RequestCells = PriorFive
    /\ Len(generated) = 1
    /\ generated[1].productImages = <<PngA>>
    /\ generated[1].keyFeatures = <<>>

\* C17: when the prior request changes from a request to none, nothing is
\* re-seeded or reset: every field of the form, the image list included,
\* keeps its value.
C17_NoReseedFromAbsent ==
    [][initialValues # <<>> /\ initialValues' = <<>>
          => /\ RequestCells' = RequestCells
             /\ UNCHANGED <<isSettingsOpen, inputValue, reads, generated>>]_vars

\* the form was seeded with the five-image request, one image was removed,
\* then the parent passed none: the four images and the seeded fields stay
C17_Witness ==
    /\ initialValues = <<>>
    /\ productImages = <<JpgB, PngA, JpgB, PngA>>
    /\ [RequestCells EXCEPT !.productImages = PriorFive.productImages] = PriorFive
    /\ nOps = 2

\* C18: a read in flight is not cancelled by a re-seed or a removal; when
\* it completes its image is appended at the end of the list the form holds
\* then, so the list after a re-seed from a request can differ from that
\* request's list with no new selection; and any pending read may be the next
\* to complete, so the order of the images is the order of completion.
C18_LateReadStillAppends ==
    /\ [](\A r \in ReadKeys :
             reads[r] > 0 /\ Truthy(Base64Of(r.file)) => ENABLED readResolves(r))
    /\ [][initialValues' # initialValues \/ Len(productImages') < Len(productImages)
             => Pending' = Pending]_vars
    /\ [][Pending' < Pending /\ logged' = logged
             => \E r \in ReadKeys :
                   /\ reads[r] > 0
                   /\ productImages' = Append(productImages, ImageOf(r.file))]_vars

\* b.jpg was picked, the parent re-seeded the form with the six-image
\* request, and then the read of b.jpg completed
C18_Witness ==
    /\ initialValues = <<PriorSix>>
    /\ productImages = Append(PriorSix.productImages, JpgB)
    /\ Pending = 0
    /\ nOps = 2

-----------------------------------------------------------------------------
(* Claims about generateVideo *)

Started(c) == pc[c] # "idle"

\* the latest handle the call holds is complete
HoldsComplete(c) == operation[c] # <<>> /\ operation[c][1].done

\* shapes whose response is present, whose list is non-empty and whose first
\* descriptor carries a uri
ShapesWithUri == {"escaped", "plain", "twoVideos", "malformed"}

\* the decoded uri of the first descriptor of each shape that has one
ExpectedUri(shape) ==
    CASE shape = "escaped" -> <<"v", "1", "?", "a">>
      [] shape = "twoVideos" -> <<"v", "1", "?", "a">>
      [] shape = "plain" -> <<"v", "2", "?", "a">>

\* the undecoded uri of the first descriptor
FirstUri(shape) ==
    CASE shape = "escaped" -> <<"v", "1", "%", "3", "F", "a">>
      [] shape = "twoVideos" -> <<"v", "1", "%", "3", "F", "a">>
      [] shape = "plain" -> <<"v", "2", "?", "a">>

\* C2: when the handle of the k-th status query (the submit's for k = 0) is the
\* first complete one, carries a first descriptor with a uri, and the fetch
\* succeeds, the call makes exactly k status queries, each after one wait,
\* stops polling and resolves with that descriptor and its decoded uri.
C2_PollsExactlyKThenResolves ==
    \A c \in CallIds :
        LET k == plan[c].doneAfter
            shape == plan[c].shape
        IN  /\ Started(c) => nWait[c] = nQuery[c]
            /\ (Started(c) /\ k # Never) => nQuery[c] <= k
            /\ (HoldsComplete(c) /\ ~Settled(c)) => nQuery[c] = k
            /\ pc[c] = "resolved" =>
                  /\ shape \in ShapesWithUri
                  /\ nQuery[c] = k
                  /\ nWait[c] = k
                  /\ nSubmit[c] = 1
                  /\ fetchRes[c] # <<>> /\ fetchRes[c][1].ok
                  /\ result[c] # <<>>
                  /\ result[c][1].video = [uri |-> FirstUri(shape), tag |-> "d1"]
                  /\ result[c][1].uri = ExpectedUri(shape)
            /\ (pc[c] = "rejected" /\ HoldsComplete(c)
                /\ shape \in ShapesWithUri \ {"malformed"}) =>
                  \* only a failed fetch keeps such a call from resolving
                  /\ nFetch[c] = 1
                  /\ \/ error[c] = NetworkError
                     \/ fetchRes[c] # <<>> /\ ~fetchRes[c][1].ok

C2_Witness ==
    /\ pc[1] = "resolved"
    /\ plan[1].doneAfter = 2
    /\ plan[1].shape = "escaped"
    /\ nQuery[1] = 2
    /\ result[1][1].uri = <<"v", "1", "?", "a">>

\* C3: a call that has observed a complete operation reaches the fetch only
\* if the response is present, the descriptor list non-empty and the first
\* descriptor has a uri; in the three other cases it rejects with an explicit
\* error and never fetches.
C3_FetchOnlyAfterValidation ==
    \A c \in CallIds :
        LET shape == plan[c].shape
        IN  /\ nFetch[c] > 0 => HoldsComplete(c) /\ shape \in ShapesWithUri
            /\ HoldsComplete(c) =>
                  /\ shape = "noResponse" =>
                        /\ pc[c] = "rejected"
                        /\ error[c] = <<"No videos generated.">>
                        /\ nFetch[c] = 0
                  /\ shape \in {"noList", "emptyList"} =>
                        /\ pc[c] = "rejected"
                        /\ error[c] = <<"No videos were generated.">>
                        /\ nFetch[c] = 0
                  /\ shape \in {"noVideo", "noUri", "noUriThenOk"} =>
                        /\ pc[c] = "rejected"
                        /\ error[c] = <<"Generated video is missing a URI.">>
                        /\ nFetch[c] = 0

C3_Witness ==
    /\ pc[1] = "rejected"
    /\ plan[1].shape = "noUriThenOk"
    /\ plan[1].doneAfter = 1
    /\ operation[1] # <<>> /\ operation[1][1].done
    /\ nFetch[1] = 0

\* C4: after a submit and poll sequence that ended in a complete operation
\* with a valid first descriptor, a non-success response to the fetch makes
\* the call reject with a message holding the status code and the status
\* text, and no result is produced.
C4_FetchFailureRejectsWithStatus ==
    \A c \in CallIds :
        (fetchRes[c] # <<>> /\ ~fetchRes[c][1].ok) =>
            /\ HoldsComplete(c)
            /\ nSubmit[c] = 1
            /\ pc[c] = "rejected"
            /\ error[c] = <<"Failed to fetch video: ", fetchRes[c][1].status,
                            " ", fetchRes[c][1].statusText>>
            /\ result[c] = <<>>

C4_Witness ==
    /\ fetchRes[1] # <<>>
    /\ fetchRes[1][1].status = "503"
    /\ pc[1] = "rejected"
    /\ nQuery[1] = 1

\* C9: no step is retried: at most one generation request and at most one
\* fetch per call, a failing step rejects the call at once, and a rejected
\* call sends nothing more.
C9_NoRetry ==
    [][\A c \in CallIds :
          /\ nSubmit'[c] <= 1
          /\ nFetch'[c] <= 1
          /\ error'[c] # error[c] => pc'[c] = "rejected"
          /\ (pc[c] \in {"awaitSubmit", "awaitQuery", "awaitFetch", "awaitBlob"}
              /\ pc'[c] \notin {pc[c], "rejected"}) => error'[c] = <<>>
          /\ pc[c] = "rejected" =>
                /\ pc'[c] = "rejected"
                /\ nSubmit'[c] = nSubmit[c]
                /\ nQuery'[c] = nQuery[c]
                /\ nFetch'[c] = nFetch[c]]_vars

C9_Witness ==
    /\ pc[1] = "rejected"
    /\ error[1] = ApiError
    /\ nSubmit[1] = 1
    /\ nQuery[1] = 1
    /\ nFetch[1] = 0

\* C10: there is no maximum poll count and no timeout: while the handles
\* returned are incomplete the call stays in the wait / query loop, with the
\* next step of the loop enabled, and settles only by passing on a failure of
\* the service; and a call whose job completes eventually settles.
C10_PollsUntilComplete ==
    /\ [](\A c \in CallIds :
            (operation[c] # <<>> /\ ~operation[c][1].done) =>
                /\ pc[c] # "resolved"
                /\ pc[c] = "rejected" => error[c] = ApiError
                /\ pc[c] # "rejected" => pc[c] \in {"wait", "awaitQuery"}
                /\ pc[c] = "wait" => ENABLED TimerFires(c)
                /\ pc[c] = "awaitQuery" => ENABLED QueryReturns(c))
    /\ \A c \in CallIds :
          (pc[c] = "start" /\ plan[c].doneAfter # Never) ~> Settled(c)

C10_Witness ==
    /\ plan[1].doneAfter = Never
    /\ nQuery[1] = MaxPolls + 1
    /\ served[1] = MaxPolls + 1
    /\ pc[1] = "wait"

\* C12: with two calls in flight, each call submits its own request, every
\* status query of a call passes the handle that call received last, and a
\* call's result is a descriptor of its own completed operation.
C12_CallsUseOwnHandle ==
    \A c \in CallIds :
        /\ pc[c] \notin {"idle", "start"} => nSubmit[c] = 1
        /\ operation[c] # <<>> => operation[c][1].name = c
        /\ queryArg[c] # <<>> => queryArg[c][1].name = c
        /\ pc[c] = "awaitQuery" => queryArg[c] = operation[c]
        /\ pc[c] = "resolved" =>
              /\ operation[c][1] = Complete(c, plan[c].shape)
              /\ result[c][1].video = [uri |-> FirstUri(plan[c].shape), tag |-> "d1"]
              /\ result[c][1].uri = ExpectedUri(plan[c].shape)
              /\ \A d \in CallIds \ {c} :
                    plan[d].shape \in ShapesWithUri =>
                        result[c][1].uri # ExpectedUri(plan[d].shape)

\* both calls polled side by side and each resolved with its own video
C12_Witness ==
    /\ pc[1] = "resolved" /\ pc[2] = "resolved"
    /\ nQuery[1] = 2 /\ nQuery[2] = 1
    /\ result[1][1].uri = <<"v", "1", "?", "a">>
    /\ result[2][1].uri = <<"v", "2", "?", "a">>

-----------------------------------------------------------------------------
(* Claims about constructPrompt *)

NonBlankLines(text) ==
    LET lines == Split(text, NL)
        kept == {i \in 1..Len(lines) : Trim(lines[i]) # <<>>}
        \* the kept indices in increasing order
        nth[k \in 1..Cardinality(kept)] ==
            CHOOSE i \in kept : Cardinality({j \in kept : j < i}) = k - 1
    IN  [k \in 1..Cardinality(kept) |-> Trim(lines[nth[k]])]

\* C6: the key-features block is omitted when the text is empty after
\* trimming; otherwise it is the lead-in followed by the trimmed non-blank
\* lines in their original order, joined by newlines.
C6_FeaturesBlockOmittedWhenBlank ==
    cpDone =>
        LET kf == cpParams.keyFeatures
            block == IF Trim(kf) = <<>> THEN <<>>
                     ELSE <<"Showcase the following key features:", NL>>
                          \o Join(NonBlankLines(kf), NL) \o <<NL, NL>>
        IN  cpPrompt =
                Opening(cpParams)
                \o (IF cpParams.targetAudience # <<>>
                    THEN AudienceSentence(cpParams) ELSE <<>>)
                \o block \o Closing

\* C7: with only targetAudience changed from empty to non-empty, the new
\* prompt is the old one with exactly the audience sentence inserted right
\* after the opening sentence, before the features block and the closing.
C7_AudienceSentenceInserted ==
    (cpDone /\ cpPrev # <<>>) =>
        LET old == cpPrev[1].prompt
            o == Len(Opening(cpPrev[1].params))
            sentence == <<"The video should be dynamic and engaging, targeting ">>
                        \o cpParams.targetAudience \o <<".", NL, NL>>
        IN  /\ o <= Len(old)
            /\ cpPrompt = SubSeq(old, 1, o) \o sentence
                              \o SubSeq(old, o + 1, Len(old))
            /\ SubSeq(old, 1, o) = Opening(cpParams)

C7_Witness ==
    /\ cpDone
    /\ cpPrev # <<>>
    /\ cpParams.targetAudience = <<"t">>
    /\ cpParams.keyFeatures = <<"a", NL, "b">>
    /\ Len(cpPrompt) > Len(cpPrev[1].prompt)


\* C16: the reference payload of the generation request has one entry per
\* image of the request, in the order of the request's list, each with that
\* image's encoded bytes and MIME type and the role ASSET; and the request is
\* sent whatever the length of the list, none and seven included.
C16_ReferencePayloadMirrorsImages ==
    \A c \in CallIds :
        /\ pc[c] \notin {"idle", "start"} => payload[c] # <<>> /\ nSubmit[c] = 1
        /\ payload[c] # <<>> =>
              LET refs == payload[c][1].config.referenceImages
                  imgs == params[c].productImages
              IN  /\ Len(refs) = Len(imgs)
                  /\ \A i \in 1..Len(imgs) :
                        /\ refs[i].image.imageBytes = imgs[i].base64
                        /\ refs[i].image.mimeType = imgs[i].file.type
                        /\ refs[i].referenceType = "ASSET"

\* a call with seven images was sent with seven entries and has resolved
C16_Witness ==
    /\ pc[1] = "resolved"
    /\ Len(params[1].productImages) > MaxImages
    /\ Len(payload[1][1].config.referenceImages) = Len(params[1].productImages)
    /\ payload[1][1].config.referenceImages[2].image.mimeType = "image/jpeg"

====
